---- MODULE Spec2Model ----
(***************************************************************************)
(* Model of the limit order book of src/backend/src/Orderbook.cpp:         *)
(* the side indices bids_/asks_, the order index orders_, the level        *)
(* aggregate data_, the engine mutex ordersMutex_, and the operations      *)
(* AddOrder / CancelOrder / ModifyOrder with the match loop.               *)
(*                                                                         *)
(* Representation of std::uint64_t (Price, Quantity, OrderId, count_):     *)
(* a value v is held as the integer r nearest to zero with                 *)
(* v = r mod 2^64.  Every magnitude in the model is far below 2^63, so     *)
(* +, - and == 0 on r are exactly the wrapping operations on v; a          *)
(* negative r is a value that wrapped below zero (2^64 + r).  Unsigned     *)
(* comparison is U64Le.                                                    *)
(***************************************************************************)
EXTENDS Integers, Sequences, FiniteSets, TLC

\* ------------------------------------------------------------------ bounds
MaxOrderId == 3
MaxPrice == 2
MaxQuantity == 2
MaxOps == 3
MaxWorkers == 2
MaxTasks == 2
MaxLevels == 5

OrderIds == 1..MaxOrderId
Prices == 1..MaxPrice
Quantities == 1..MaxQuantity
Workers == 1..MaxWorkers
Clients == {"A", "B"}

Sides == {"Buy", "Sell"}
OrderTypes == {"GoodTillCancel", "GoodForDay", "FillAndKill", "FillOrKill", "Market"}

\* ----------------------------------------------------------------- helpers
EmptyMap == <<>>

Put(f, k, v) == [x \in (DOMAIN f) \cup {k} |-> IF x = k THEN v ELSE f[x]]

Del(f, k) == [x \in (DOMAIN f) \ {k} |-> f[x]]

SetMax(S) == CHOOSE x \in S : \A y \in S : y <= x

SetMin(S) == CHOOSE x \in S : \A y \in S : x <= y

MinQ(a, b) == IF a <= b THEN a ELSE b

U64Le(a, b) == IF (a < 0) = (b < 0) THEN a <= b ELSE b < 0

SeqRemoveFront(s, x) == Tail(s)

RECURSIVE SeqRemove(_, _)
SeqRemove(s, x) ==
    IF s = <<>> THEN <<>>
    ELSE IF Head(s) = x THEN Tail(s)
    ELSE <<Head(s)>> \o SeqRemove(Tail(s), x)

RECURSIVE SortedSeq(_)
SortedSeq(S) ==
    IF S = {} THEN <<>>
    ELSE LET m == SetMin(S) IN <<m>> \o SortedSeq(S \ {m})

\* ------------------------------------------------------------------ orders
\* Order(type, id, side, price, quantity): remaining starts at the initial
\* quantity.  seq is a ghost arrival stamp, not a field of the program.
NewOrder(type, id, side, price, quantity, seq) ==
    [id |-> id, side |-> side, type |-> type, price |-> price,
     initial |-> quantity, remaining |-> quantity, seq |-> seq]

Fill(o, quantity) == [o EXCEPT !.remaining = @ - quantity]

IsFilled(o) == o.remaining = 0

ToGoodTillCancel(o, price) == [o EXCEPT !.type = "GoodTillCancel", !.price = price]

\* OrderModify::ToOrderPointer(type): a fresh order with the request's fields
ToOrderPointer(m, type, seq) == NewOrder(type, m.id, m.side, m.price, m.qty, seq)

\* ------------------------------------------------------------------- state
VARIABLES bids_, asks_, orders_, data_, ordersMutex_, pc, trades, hist, last, prev, clock, infos,
          workers_, task, tasks_, queueMutex_, stop_, futures, owner,
          shutdown_, ordersPruneThread_, engine,
          threads,
          shard

bookVars == <<bids_, asks_, orders_, data_>>

clientVars == <<ordersMutex_, pc, trades, hist, last, prev, clock, infos>>

\* ThreadPool: the worker threads' positions, each worker's local `task`,
\* the queue, its mutex, the stop flag; as ghosts the state of the future of
\* each submitted task and the position of the thread that owns the pool
poolVars == <<workers_, task, tasks_, queueMutex_, stop_, futures, owner>>

\* The engine's shutdown flag, the pruner thread (its position in
\* PruneGoodForDayOrders and its local orderIds) and, as a ghost, the position
\* of the thread that owns the Orderbook object
engineVars == <<shutdown_, ordersPruneThread_, engine>>

\* Client threads that call the Orderbook concurrently: each one's position
\* and the arguments of its call in flight
threadVars == <<threads>>

\* One call of submitBatches of ThreadPoolSnapshot on its own: the container
\* it is given and the call's locals
shardVars == <<shard>>

otherVars == <<poolVars, engineVars, threadVars, shardVars>>

nonPoolVars == <<bookVars, clientVars, engineVars, threadVars, shardVars>>

nonEngineVars == <<pc, trades, hist, last, prev, infos, poolVars, threadVars, shardVars>>

nonThreadVars == <<pc, trades, hist, last, prev, poolVars, engineVars, shardVars>>

nonShardVars == <<bookVars, clientVars, poolVars, engineVars, threadVars>>

vars == <<bookVars, clientVars, otherVars>>

Book == [bids |-> bids_, asks |-> asks_, orders |-> orders_, data |-> data_]

EmptyBook == [bids |-> EmptyMap, asks |-> EmptyMap, orders |-> EmptyMap, data |-> EmptyMap]

BidsBeginLowest(b) == SetMin(DOMAIN b.bids)

\* begin() of the two side maps (std::greater for bids, std::less for asks)
BidsBegin(b) == SetMax(DOMAIN b.bids)

AsksBegin(b) == SetMin(DOMAIN b.asks)

\* rbegin(): the worst price of a side
BidsRBegin(b) == SetMin(DOMAIN b.bids)

AsksRBeginBest(b) == SetMin(DOMAIN b.asks)

AsksRBegin(b) == SetMax(DOMAIN b.asks)

\* --------------------------------------------------------- level aggregate
LevelDataDefault == [quantity_ |-> 0, count_ |-> 0]

UpdateLevelData(data, price, quantity, action) ==
    LET old == IF price \in DOMAIN data THEN data[price] ELSE LevelDataDefault
        cnt == old.count_ + (IF action = "Remove" THEN -1 ELSE IF action = "Add" THEN 1 ELSE 0)
        qty == IF action = "Remove" \/ action = "Match"
               THEN old.quantity_ - quantity
               ELSE old.quantity_ + quantity
    IN  IF cnt = 0 THEN Del(data, price)
        ELSE Put(data, price, [quantity_ |-> qty, count_ |-> cnt])

OnOrderCancelled(data, o) == UpdateLevelData(data, o.price, o.remaining, "Remove")

OnOrderAdded(data, o) == UpdateLevelData(data, o.price, o.initial, "Add")

OnOrderMatched(data, price, quantity, isFullyFilled) ==
    UpdateLevelData(data, price, quantity, IF isFullyFilled THEN "Remove" ELSE "Match")

\* ----------------------------------------------------------------- cancel
CancelOrderInternalKeepLevel(b, orderId) ==
    IF orderId \notin DOMAIN b.orders THEN b
    ELSE LET order == b.orders[orderId]
         IN  [b EXCEPT !.orders = Del(b.orders, orderId),
                       !.asks = IF order.side = "Sell" THEN Put(@, order.price, SeqRemove(@[order.price], orderId)) ELSE @,
                       !.bids = IF order.side = "Buy" THEN Put(@, order.price, SeqRemove(@[order.price], orderId)) ELSE @,
                       !.data = OnOrderCancelled(b.data, order)]

CancelOrderInternal(b, orderId) ==
    IF orderId \notin DOMAIN b.orders THEN b
    ELSE LET order == b.orders[orderId]
             price == order.price
         IN  IF order.side = "Sell"
             THEN LET q == SeqRemove(b.asks[price], orderId)
                  IN  [b EXCEPT !.orders = Del(b.orders, orderId),
                                !.asks = IF q = <<>> THEN Del(b.asks, price) ELSE Put(b.asks, price, q),
                                !.data = OnOrderCancelled(b.data, order)]
             ELSE LET q == SeqRemove(b.bids[price], orderId)
                  IN  [b EXCEPT !.orders = Del(b.orders, orderId),
                                !.bids = IF q = <<>> THEN Del(b.bids, price) ELSE Put(b.bids, price, q),
                                !.data = OnOrderCancelled(b.data, order)]

\* ------------------------------------------------------------ feasibility
CanMatch(b, side, price) ==
    IF side = "Buy"
    THEN IF DOMAIN b.asks = {} THEN FALSE ELSE price >= AsksBegin(b)
    ELSE IF DOMAIN b.bids = {} THEN FALSE ELSE price <= BidsBegin(b)

\* The loop over data_ (an unordered_map: the iteration order is unspecified;
\* the loop's result does not depend on it, ascending price is used here).
RECURSIVE CanFullyFillLoop(_, _, _, _, _, _)
CanFullyFillLoop(data, levels, side, threshold, price, quantity) ==
    IF levels = <<>> THEN FALSE
    ELSE LET levelPrice == Head(levels)
             levelData == data[levelPrice]
         IN  IF (side = "Buy" /\ threshold > levelPrice) \/ (side = "Sell" /\ threshold < levelPrice)
             THEN CanFullyFillLoop(data, Tail(levels), side, threshold, price, quantity)
             ELSE IF (side = "Buy" /\ levelPrice > price) \/ (side = "Sell" /\ levelPrice < price)
             THEN CanFullyFillLoop(data, Tail(levels), side, threshold, price, quantity)
             ELSE IF U64Le(quantity, levelData.quantity_) THEN TRUE
             ELSE CanFullyFillLoop(data, Tail(levels), side, threshold, price,
                                   quantity - levelData.quantity_)

CanFullyFill(b, side, price, quantity) ==
    IF ~CanMatch(b, side, price) THEN FALSE
    ELSE LET threshold == IF side = "Buy" THEN AsksBegin(b) ELSE BidsBegin(b)
         IN  CanFullyFillLoop(b.data, SortedSeq(DOMAIN b.data), side, threshold, price, quantity)

\* ------------------------------------------------------------- match loop
\* A match state m carries the book, the trades pushed so far and, as a
\* ghost, the order index as it was just before each trade (hist).
NewTradeAskFirst(bid, ask, quantity) ==
    [bid |-> [orderId |-> ask.id, price |-> ask.price, quantity |-> quantity],
     ask |-> [orderId |-> bid.id, price |-> bid.price, quantity |-> quantity]]

NewTradeInitialQuantity(bid, ask, quantity) ==
    [bid |-> [orderId |-> bid.id, price |-> bid.price, quantity |-> bid.initial],
     ask |-> [orderId |-> ask.id, price |-> ask.price, quantity |-> quantity]]

NewTrade(bid, ask, quantity) ==
    [bid |-> [orderId |-> bid.id, price |-> bid.price, quantity |-> quantity],
     ask |-> [orderId |-> ask.id, price |-> ask.price, quantity |-> quantity]]

\* One iteration of the inner while loop over the two front orders.
MatchFront(m, bidPrice, askPrice) ==
    LET b == m.book
        bids == b.bids[bidPrice]
        asks == b.asks[askPrice]
        bid0 == b.orders[Head(bids)]
        ask0 == b.orders[Head(asks)]
        quantity == MinQ(bid0.remaining, ask0.remaining)
        bid == Fill(bid0, quantity)
        ask == Fill(ask0, quantity)
        bids1 == IF IsFilled(bid) THEN Tail(bids) ELSE bids
        orders1 == IF IsFilled(bid) THEN Del(b.orders, bid.id) ELSE Put(b.orders, bid.id, bid)
        asks1 == IF IsFilled(ask) THEN Tail(asks) ELSE asks
        orders2 == IF IsFilled(ask) THEN Del(orders1, ask.id) ELSE Put(orders1, ask.id, ask)
        data1 == OnOrderMatched(b.data, bid.price, quantity, IsFilled(bid))
        data2 == OnOrderMatched(data1, ask.price, quantity, IsFilled(ask))
    IN  [book |-> [bids |-> Put(b.bids, bidPrice, bids1),
                   asks |-> Put(b.asks, askPrice, asks1),
                   orders |-> orders2,
                   data |-> data2],
         trades |-> Append(m.trades, NewTrade(bid, ask, quantity)),
         hist |-> Append(m.hist, b.orders)]

RECURSIVE MatchInner(_, _, _)
MatchInner(m, bidPrice, askPrice) ==
    IF Len(m.book.bids[bidPrice]) # 0 /\ Len(m.book.asks[askPrice]) # 0
    THEN MatchInner(MatchFront(m, bidPrice, askPrice), bidPrice, askPrice)
    ELSE m

\* data_.erase(bidPrice) / data_.erase(askPrice) read the key through a
\* reference into the map node that bids_.erase / asks_.erase has just
\* destroyed.  dangling = "stale": the read still yields the old price;
\* dangling = "poison": the freed node was overwritten and the value read is
\* the key of no level, so nothing is erased.
EraseLevelData(data, price, dangling) ==
    IF dangling = "stale" THEN Del(data, price) ELSE data

EraseEmptyLevels(b, bidPrice, askPrice, dangling) ==
    LET b1 == IF b.bids[bidPrice] = <<>>
              THEN [b EXCEPT !.bids = Del(@, bidPrice),
                             !.data = EraseLevelData(@, bidPrice, dangling)]
              ELSE b
    IN  IF b1.asks[askPrice] = <<>>
        THEN [b1 EXCEPT !.asks = Del(@, askPrice),
                        !.data = EraseLevelData(@, askPrice, dangling)]
        ELSE b1

MatchStopsAtEqual(bidPrice, askPrice) == bidPrice <= askPrice

\* if (bidPrice < askPrice) break;
MatchStops(bidPrice, askPrice) == bidPrice < askPrice

\* The outer while (true) loop of MatchOrders.
RECURSIVE MatchLoop(_, _)
MatchLoop(m, dangling) ==
    IF DOMAIN m.book.bids = {} \/ DOMAIN m.book.asks = {} THEN m
    ELSE LET bidPrice == BidsBegin(m.book)
             askPrice == AsksBegin(m.book)
         IN  IF MatchStops(bidPrice, askPrice) THEN m
             ELSE LET m1 == MatchInner(m, bidPrice, askPrice)
                  IN  MatchLoop([m1 EXCEPT !.book = EraseEmptyLevels(m1.book, bidPrice, askPrice, dangling)],
                                dangling)

FillAndKillFrontNone(b, side) == 0

\* The two blocks after the loop: the front order of the best level of a
\* side, when its type is FillAndKill, is passed to CancelOrder.  0 = none.
FillAndKillFront(b, side) ==
    IF side = "Buy"
    THEN IF DOMAIN b.bids = {} THEN 0
         ELSE LET order == b.orders[Head(b.bids[BidsBegin(b)])]
              IN  IF order.type = "FillAndKill" THEN order.id ELSE 0
    ELSE IF DOMAIN b.asks = {} THEN 0
         ELSE LET order == b.orders[Head(b.asks[AsksBegin(b)])]
              IN  IF order.type = "FillAndKill" THEN order.id ELSE 0

\* Which CancelOrder call of the post-pass comes next, checking from block
\* `from` ("bid" then "ask"); "none" when MatchOrders returns.
NextRelock(b, from) ==
    IF from = "bid" /\ FillAndKillFront(b, "Buy") # 0 THEN "bid"
    ELSE IF FillAndKillFront(b, "Sell") # 0 THEN "ask"
    ELSE "none"

\* -------------------------------------------------------------- AddOrder
\* The admission checks of AddOrder, in the code's order.
AddOrderAdmit(b, o) ==
    IF o.id \in DOMAIN b.orders THEN [tag |-> "duplicate", order |-> o]
    ELSE IF o.type = "FillAndKill" /\ ~CanMatch(b, o.side, o.price)
    THEN [tag |-> "fak_no_cross", order |-> o]
    ELSE IF o.type = "Market" /\ ~((o.side = "Buy" /\ DOMAIN b.asks # {}) \/
                                   (o.side = "Sell" /\ DOMAIN b.bids # {}))
    THEN [tag |-> "market_empty", order |-> o]
    ELSE LET o1 == IF o.type = "Market"
                   THEN IF o.side = "Buy"
                        THEN ToGoodTillCancel(o, AsksRBegin(b))
                        ELSE ToGoodTillCancel(o, BidsRBegin(b))
                   ELSE o
         IN  IF o1.type = "FillOrKill" /\ ~CanFullyFill(b, o1.side, o1.price, o1.initial)
             THEN [tag |-> "fok_reject", order |-> o1]
             ELSE [tag |-> "admitted", order |-> o1]

AddOrderInsertBidSide(b, o) ==
    [bids |-> Put(b.bids, o.price, Append(IF o.price \in DOMAIN b.bids THEN b.bids[o.price] ELSE <<>>, o.id)),
     asks |-> b.asks,
     orders |-> Put(b.orders, o.id, o),
     data |-> OnOrderAdded(b.data, o)]

\* push_back on the level's list (created on demand), index entry, OnOrderAdded
AddOrderInsert(b, o) ==
    LET level(side) == IF o.price \in DOMAIN side THEN side[o.price] ELSE <<>>
    IN  [bids |-> IF o.side = "Buy" THEN Put(b.bids, o.price, Append(level(b.bids), o.id)) ELSE b.bids,
         asks |-> IF o.side = "Buy" THEN b.asks ELSE Put(b.asks, o.price, Append(level(b.asks), o.id)),
         orders |-> Put(b.orders, o.id, o),
         data |-> OnOrderAdded(b.data, o)]

\* AddOrder from taking the mutex up to the first CancelOrder call of the
\* post-pass (relock # "none") or up to its return (relock = "none").
AddOrderLocked(b, o, dangling) ==
    LET a == AddOrderAdmit(b, o)
    IN  IF a.tag # "admitted"
        THEN [book |-> b, trades |-> <<>>, hist |-> <<>>, tag |-> a.tag, relock |-> "none"]
        ELSE LET m == MatchLoop([book |-> AddOrderInsert(b, a.order), trades |-> <<>>, hist |-> <<>>],
                                dangling)
             IN  [book |-> m.book, trades |-> m.trades, hist |-> m.hist, tag |-> "admitted",
                  relock |-> NextRelock(m.book, "bid")]

\* CancelOrder(order->GetOrderId()) of the post-pass, once its lock() went
\* through, and the rest of the post-pass after it.
RelockCancel(b, stage) ==
    LET side == IF stage = "bid" THEN "Buy" ELSE "Sell"
        b1 == CancelOrderInternal(b, FillAndKillFront(b, side))
    IN  [book |-> b1, relock |-> IF stage = "bid" THEN NextRelock(b1, "ask") ELSE "none"]

\* A whole AddOrder call as a function of the book.  relock is the outcome of
\* lock() on the already-owned mutex: "reenter" (the call goes on and
\* returns) or "deadlock" (the call never returns: returned = FALSE).
AddOrderCall(b, o, dangling, relock) ==
    LET r == AddOrderLocked(b, o, dangling)
    IN  IF r.relock = "none"
        THEN [book |-> r.book, trades |-> r.trades, tag |-> r.tag, returned |-> TRUE]
        ELSE IF relock = "deadlock"
        THEN [book |-> r.book, trades |-> r.trades, tag |-> r.tag, returned |-> FALSE]
        ELSE LET c1 == RelockCancel(r.book, r.relock)
                 c2 == IF c1.relock = "none" THEN c1 ELSE RelockCancel(c1.book, c1.relock)
             IN  [book |-> c2.book, trades |-> r.trades, tag |-> r.tag, returned |-> TRUE]

\* A whole ModifyOrder call by a single caller, as a function of the book.
ModifyOrderCall(b, m, seq, dangling, relock) ==
    IF m.id \notin DOMAIN b.orders
    THEN [book |-> b, trades |-> <<>>, tag |-> "unknown", returned |-> TRUE]
    ELSE LET orderType == b.orders[m.id].type
         IN  AddOrderCall(CancelOrderInternal(b, m.id), ToOrderPointer(m, orderType, seq),
                          dangling, relock)

\* --------------------------------------------------------------- snapshots
MaxHardwareConcurrency == 3

\* std::thread::hardware_concurrency(): 0 when the value is not computable
HardwareConcurrency == 0..MaxHardwareConcurrency

\* 0 / 0 on size_t is undefined: the division traps (the process is killed),
\* or it yields some value and the call goes on
DivZeroOutcomes == {"trap", "value"}

Strategies == {"Sequential", "Async", "ThreadPool", "AsyncThreadPool"}

RECURSIVE Reverse(_)
Reverse(s) == IF s = <<>> THEN <<>> ELSE Append(Reverse(Tail(s)), Head(s))

BidLevelsAscending(bids) == SortedSeq(DOMAIN bids)

\* iteration order of BidMap (std::greater<Price>) and AskMap (std::less<Price>)
BidLevels(bids) == Reverse(SortedSeq(DOMAIN bids))

AskLevels(asks) == SortedSeq(DOMAIN asks)

LevelInfo(price, quantity) == [price_ |-> price, quantity_ |-> quantity]

NoInfos == [completed |-> FALSE, bids |-> <<>>, asks |-> <<>>]

\* for (const auto& order : orderList) total += order->GetRemainingQuantity();
RECURSIVE TotalLoop(_, _, _)
TotalLoop(orders, orderList, total) ==
    IF orderList = <<>> THEN total
    ELSE TotalLoop(orders, Tail(orderList), total + orders[Head(orderList)].remaining)

\* for (const auto& [price, orderList] : side) ... push_back(LevelInfo{ price, total })
RECURSIVE SequentialLoop(_, _, _, _)
SequentialLoop(orders, side, levels, levelInfos) ==
    IF levels = <<>> THEN levelInfos
    ELSE SequentialLoop(orders, side, Tail(levels),
                        Append(levelInfos, LevelInfo(Head(levels), TotalLoop(orders, side[Head(levels)], 0))))

SequentialSnapshot(b) ==
    [completed |-> TRUE,
     bids |-> SequentialLoop(b.orders, b.bids, BidLevels(b.bids), <<>>),
     asks |-> SequentialLoop(b.orders, b.asks, AskLevels(b.asks), <<>>)]

\* std::accumulate(orders.begin(), orders.end(), (Quantity)0, runningSum + remaining)
RECURSIVE Accumulate(_, _, _)
Accumulate(orders, orderList, runningSum) ==
    IF orderList = <<>> THEN runningSum
    ELSE Accumulate(orders, Tail(orderList), runningSum + orders[Head(orderList)].remaining)

CreateLevelInfos(orders, price, orderList) == LevelInfo(price, Accumulate(orders, orderList, 0))

\* The body of each of the two std::async tasks; the two futures are joined
\* with get(), bids first.
AsyncTask(orders, side, levels) ==
    [i \in 1..Len(levels) |-> CreateLevelInfos(orders, levels[i], side[levels[i]])]

AsyncSnapshot(b) ==
    [completed |-> TRUE,
     bids |-> AsyncTask(b.orders, b.bids, BidLevels(b.bids)),
     asks |-> AsyncTask(b.orders, b.asks, AskLevels(b.asks))]

\* batchProcess(beginIt, endIt): positions beginIt .. endIt - 1 of the side
RECURSIVE BatchProcess(_, _, _, _, _)
BatchProcess(orders, side, levels, beginIt, endIt) ==
    IF beginIt >= endIt THEN <<>>
    ELSE <<CreateLevelInfos(orders, levels[beginIt], side[levels[beginIt]])>>
         \o BatchProcess(orders, side, levels, beginIt + 1, endIt)

\* the for loop that submits batch i .. numBatches - 1, and the loop that
\* appends the futures' results in submission order
RECURSIVE BatchLoop(_, _, _, _, _, _, _)
BatchLoop(orders, side, levels, i, it, numBatches, batchSize) ==
    IF i >= numBatches THEN <<>>
    ELSE LET batchEnd == IF i = numBatches - 1 THEN Len(levels) + 1 ELSE it + batchSize
         IN  BatchProcess(orders, side, levels, it, batchEnd)
             \o BatchLoop(orders, side, levels, i + 1, batchEnd, numBatches, batchSize)

\* submitBatches(container).  The pool handed in has a worker and is not
\* stopped, so each future becomes ready.
SubmitBatches(orders, side, levels, hardwareConcurrency, divZero) ==
    LET numElements == Len(levels)
        hardwareThreads == IF hardwareConcurrency > 1 THEN hardwareConcurrency ELSE 1
        numBatches == IF hardwareThreads < numElements THEN hardwareThreads ELSE numElements
    IN  IF numBatches = 0
        THEN [completed |-> divZero # "trap", levelInfos |-> <<>>]
        ELSE [completed |-> TRUE,
              levelInfos |-> BatchLoop(orders, side, levels, 0, 1, numBatches,
                                       numElements \div numBatches)]

ThreadPoolSnapshot(b, hardwareConcurrency, divZero) ==
    LET bidInfos == SubmitBatches(b.orders, b.bids, BidLevels(b.bids), hardwareConcurrency, divZero)
        askInfos == SubmitBatches(b.orders, b.asks, AskLevels(b.asks), hardwareConcurrency, divZero)
    IN  IF bidInfos.completed /\ askInfos.completed
        THEN [completed |-> TRUE, bids |-> bidInfos.levelInfos, asks |-> askInfos.levelInfos]
        ELSE NoInfos

\* one pool task per level; the futures are read in iteration order
RECURSIVE LevelFutures(_, _, _)
LevelFutures(orders, side, levels) ==
    IF levels = <<>> THEN <<>>
    ELSE <<CreateLevelInfos(orders, Head(levels), side[Head(levels)])>>
         \o LevelFutures(orders, side, Tail(levels))

AsyncThreadPoolSnapshot(b) ==
    [completed |-> TRUE,
     bids |-> LevelFutures(b.orders, b.bids, BidLevels(b.bids)),
     asks |-> LevelFutures(b.orders, b.asks, AskLevels(b.asks))]

Generate(strategy, b, hardwareConcurrency, divZero) ==
    CASE strategy = "Sequential" -> SequentialSnapshot(b)
      [] strategy = "Async" -> AsyncSnapshot(b)
      [] strategy = "ThreadPool" -> ThreadPoolSnapshot(b, hardwareConcurrency, divZero)
      [] strategy = "AsyncThreadPool" -> AsyncThreadPoolSnapshot(b)

\* a client thread between calls.  Ghosts of its last ModifyOrder: vanished,
\* the order was no longer live when the call's own CancelOrder ran; torn, the
\* call re-added an order that had vanished, or its re-add was dropped as a
\* duplicate
ThreadIdle == [pc |-> "idle", id |-> 0, side |-> "Buy", price |-> 0, qty |-> 0,
               type |-> "GoodTillCancel", vanished |-> FALSE, torn |-> FALSE]

\* -------------------------------------------------------- state machine
\* One client thread.  pc is its position: "idle" between calls,
\* "relock_bid"/"relock_ask" inside MatchOrders at a CancelOrder call made
\* while AddOrder's scoped_lock holds ordersMutex_, "hung" once that lock()
\* blocks on the thread's own mutex, "modify_cancel"/"modify_add" between
\* the three locked sections of ModifyOrder.
NoOp == [op |-> "None", id |-> 0, side |-> "Buy", type |-> "GoodTillCancel",
         price |-> 0, qty |-> 0, tag |-> "none"]

InitBook ==
    /\ bids_ = EmptyMap
    /\ asks_ = EmptyMap
    /\ orders_ = EmptyMap
    /\ data_ = EmptyMap
    /\ ordersMutex_ = "free"
    /\ pc = "idle"
    /\ trades = <<>>
    /\ hist = <<>>
    /\ last = NoOp
    /\ prev = EmptyBook
    /\ clock = 0
    /\ infos = NoInfos

\* ThreadPool(threadCount): every worker thread starts at the top of its loop
InitPool ==
    /\ workers_ = [w \in Workers |-> "loop"]
    /\ task = [w \in Workers |-> 0]
    /\ tasks_ = <<>>
    /\ queueMutex_ = 0
    /\ stop_ = FALSE
    /\ futures = <<>>
    /\ owner = "run"

\* Orderbook(): the pruner thread starts at the top of its loop
InitEngine ==
    /\ shutdown_ = FALSE
    /\ ordersPruneThread_ = [pc |-> "compute", orderIds |-> <<>>]
    /\ engine = "run"

\* no client thread is inside a call
InitThreads ==
    /\ threads = [t \in Clients |-> ThreadIdle]

\* no call of submitBatches is under way
InitShard ==
    /\ shard = [pc |-> "none"]

Init == InitBook /\ InitPool /\ InitEngine /\ InitThreads /\ InitShard

SetBook(b) ==
    /\ bids_' = b.bids
    /\ asks_' = b.asks
    /\ orders_' = b.orders
    /\ data_' = b.data

\* The locked body of AddOrder for order o, shared by AddOrder and by the
\* AddOrder call that ends ModifyOrder.
RunAddOrder(o, dangling) ==
    LET r == AddOrderLocked(Book, o, dangling)
    IN  /\ SetBook(r.book)
        /\ trades' = r.trades
        /\ hist' = r.hist
        /\ last' = [last EXCEPT !.tag = r.tag]
        /\ pc' = IF r.relock = "none" THEN "idle" ELSE "relock_" \o r.relock
        /\ ordersMutex_' = IF r.relock = "none" THEN "free" ELSE "client"

AddOrder(type, id, side, price, qty) ==
    /\ pc = "idle"
    /\ ordersMutex_ = "free"
    /\ UNCHANGED otherVars
    /\ clock < MaxOps
    /\ clock' = clock + 1
    /\ prev' = Book
    /\ infos' = NoInfos
    /\ \E dangling \in {"stale", "poison"} :
         LET r == AddOrderLocked(Book, NewOrder(type, id, side, price, qty, clock), dangling)
         IN  /\ SetBook(r.book)
             /\ trades' = r.trades
             /\ hist' = r.hist
             /\ last' = [op |-> "Add", id |-> id, side |-> side, type |-> type,
                         price |-> price, qty |-> qty, tag |-> r.tag]
             /\ pc' = IF r.relock = "none" THEN "idle" ELSE "relock_" \o r.relock
             /\ ordersMutex_' = IF r.relock = "none" THEN "free" ELSE "client"

\* lock() on the mutex the thread already owns, outcome 1: the lock is
\* granted again (an implementation that counts the owner's locks).
RelockReenter ==
    /\ pc \in {"relock_bid", "relock_ask"}
    /\ ordersMutex_ = "client"
    /\ LET r == RelockCancel(Book, IF pc = "relock_bid" THEN "bid" ELSE "ask")
       IN  /\ SetBook(r.book)
           /\ pc' = IF r.relock = "none" THEN "idle" ELSE "relock_" \o r.relock
           /\ ordersMutex_' = IF r.relock = "none" THEN "free" ELSE "client"
    /\ UNCHANGED <<trades, hist, last, prev, clock, infos>>
    /\ UNCHANGED otherVars

\* outcome 2: the lock() never returns; the thread blocks holding the mutex.
RelockDeadlock ==
    /\ pc \in {"relock_bid", "relock_ask"}
    /\ ordersMutex_ = "client"
    /\ pc' = "hung"
    /\ UNCHANGED <<bids_, asks_, orders_, data_, ordersMutex_, trades, hist, last, prev, clock, infos>>
    /\ UNCHANGED otherVars

CancelOrder(orderId) ==
    /\ pc = "idle"
    /\ ordersMutex_ = "free"
    /\ clock < MaxOps
    /\ clock' = clock + 1
    /\ prev' = Book
    /\ infos' = NoInfos
    /\ SetBook(CancelOrderInternal(Book, orderId))
    /\ trades' = <<>>
    /\ hist' = <<>>
    /\ last' = [NoOp EXCEPT !.op = "Cancel", !.id = orderId,
                            !.tag = IF orderId \in DOMAIN orders_ THEN "cancelled" ELSE "unknown"]
    /\ UNCHANGED <<pc, ordersMutex_>>
    /\ UNCHANGED otherVars

\* First locked section of ModifyOrder: existence check and read of the type.
ModifyOrder(id, side, price, qty) ==
    /\ pc = "idle"
    /\ ordersMutex_ = "free"
    /\ clock < MaxOps
    /\ clock' = clock + 1
    /\ prev' = Book
    /\ infos' = NoInfos
    /\ trades' = <<>>
    /\ hist' = <<>>
    /\ IF id \notin DOMAIN orders_
       THEN /\ last' = [op |-> "Modify", id |-> id, side |-> side, type |-> "GoodTillCancel",
                        price |-> price, qty |-> qty, tag |-> "unknown"]
            /\ pc' = "idle"
       ELSE /\ last' = [op |-> "Modify", id |-> id, side |-> side, type |-> orders_[id].type,
                        price |-> price, qty |-> qty, tag |-> "pending"]
            /\ pc' = "modify_cancel"
    /\ UNCHANGED <<bids_, asks_, orders_, data_, ordersMutex_>>
    /\ UNCHANGED otherVars

ModifyCancelSkipped ==
    /\ pc = "modify_cancel"
    /\ ordersMutex_ = "free"
    /\ pc' = "modify_add"
    /\ UNCHANGED <<bids_, asks_, orders_, data_, ordersMutex_, trades, hist, last, prev, clock, infos>>
    /\ UNCHANGED otherVars

\* CancelOrder(order.GetOrderId()) inside ModifyOrder
ModifyCancel ==
    /\ pc = "modify_cancel"
    /\ ordersMutex_ = "free"
    /\ SetBook(CancelOrderInternal(Book, last.id))
    /\ pc' = "modify_add"
    /\ UNCHANGED <<ordersMutex_, trades, hist, last, prev, clock, infos>>
    /\ UNCHANGED otherVars

\* return AddOrder(order.ToOrderPointer(orderType)) inside ModifyOrder
ModifyAdd ==
    /\ pc = "modify_add"
    /\ ordersMutex_ = "free"
    /\ \E dangling \in {"stale", "poison"} :
         RunAddOrder(ToOrderPointer(last, last.type, clock - 1), dangling)
    /\ UNCHANGED <<prev, clock, infos>>
    /\ UNCHANGED otherVars

\* GetOrderInfos(strategy[, pool]) by the client between its calls.  The
\* function is const and takes no lock.  hardware_concurrency() and the
\* outcome of a division by zero are the build's and the machine's choice.
\* A trapped division ends the process.
GetOrderInfos(strategy) ==
    /\ pc = "idle"
    /\ prev' = Book
    /\ last' = [NoOp EXCEPT !.op = "Snapshot", !.tag = strategy]
    /\ infos' \in {Generate(strategy, Book, hardwareConcurrency, divZero) :
                     hardwareConcurrency \in HardwareConcurrency, divZero \in DivZeroOutcomes}
    /\ pc' = IF infos'.completed THEN "idle" ELSE "crashed"
    /\ trades' = <<>>
    /\ hist' = <<>>
    /\ UNCHANGED <<bids_, asks_, orders_, data_, ordersMutex_, clock>>
    /\ UNCHANGED otherVars

\* The ids a call is made with.  An OrderId is only ever a key of orders_,
\* hashed and compared for equality, and nothing keeps an id that is not
\* live: which unused id a client picks makes no difference, so the lowest
\* unused id stands for all of them.
UnusedIds == OrderIds \ DOMAIN orders_

ClientIds == (DOMAIN orders_) \cup (IF UnusedIds = {} THEN {} ELSE {SetMin(UnusedIds)})

Next ==
    \/ \E type \in OrderTypes, id \in ClientIds, side \in Sides, price \in Prices, qty \in Quantities :
         AddOrder(type, id, side, price, qty)
    \/ \E id \in ClientIds : CancelOrder(id)
    \/ \E id \in ClientIds, side \in Sides, price \in Prices, qty \in Quantities :
         ModifyOrder(id, side, price, qty)
    \/ ModifyCancel
    \/ ModifyAdd
    \/ RelockReenter
    \/ RelockDeadlock

Spec == Init /\ [][Next]_vars

\* The client's calls together with its snapshot reads.
SnapshotNext ==
    \/ Next
    \/ \E strategy \in Strategies : GetOrderInfos(strategy)

SnapshotSpec == Init /\ [][SnapshotNext]_vars

\* -------------------------------------------------------------- ThreadPool
\* One pool with MaxWorkers worker threads and the thread that owns it: the
\* owner submits tasks and later runs the destructor.  workers_[w] is the
\* position of worker w in workerThread():
\*   "loop"  at while (!stop_)            "lock"  at unique_lock lock(queueMutex_)
\*   "pred"  evaluating the wait predicate with the mutex held
\*   "block" the predicate was false; about to block in condition_.wait
\*   "wait"  blocked on condition_, mutex released
\*   "wake"  unblocked; re-acquiring the mutex inside wait
\*   "check" at if (stop_ && tasks_.empty()) "run" at task()
\*   "undefined" after front() on an empty queue
\*   "exited" returned from workerThread()
\* Task k is the k-th task submitted; futures[k] is "pending" or "ready".
\* queueMutex_ is the worker that holds it, 0 when it is free.
Waiting == {w \in Workers : workers_[w] = "wait"}

NotifyNone == {}

\* condition_.notify_one(): the threads one of which is unblocked
NotifyOne == Waiting

\* while (!stop_)
WorkerLoop(w) ==
    /\ workers_[w] = "loop"
    /\ workers_' = [workers_ EXCEPT ![w] = IF stop_ THEN "exited" ELSE "lock"]
    /\ UNCHANGED <<task, tasks_, queueMutex_, stop_, futures, owner>>
    /\ UNCHANGED nonPoolVars

\* std::unique_lock lock(queueMutex_);
WorkerLock(w) ==
    /\ workers_[w] = "lock"
    /\ queueMutex_ = 0
    /\ queueMutex_' = w
    /\ workers_' = [workers_ EXCEPT ![w] = "pred"]
    /\ UNCHANGED <<task, tasks_, stop_, futures, owner>>
    /\ UNCHANGED nonPoolVars

\* the predicate of condition_.wait(lock, pred): stop_ || !tasks_.empty()
WorkerPred(w) ==
    /\ workers_[w] = "pred"
    /\ workers_' = [workers_ EXCEPT ![w] = IF stop_ \/ tasks_ # <<>> THEN "check" ELSE "block"]
    /\ UNCHANGED <<task, tasks_, queueMutex_, stop_, futures, owner>>
    /\ UNCHANGED nonPoolVars

\* condition_.wait(lock): releases the mutex and blocks, atomically
WorkerBlock(w) ==
    /\ workers_[w] = "block"
    /\ queueMutex_' = 0
    /\ workers_' = [workers_ EXCEPT ![w] = "wait"]
    /\ UNCHANGED <<task, tasks_, stop_, futures, owner>>
    /\ UNCHANGED nonPoolVars

\* an unblocked worker re-acquires the mutex and evaluates the predicate again
WorkerWake(w) ==
    /\ workers_[w] = "wake"
    /\ queueMutex_ = 0
    /\ queueMutex_' = w
    /\ workers_' = [workers_ EXCEPT ![w] = "pred"]
    /\ UNCHANGED <<task, tasks_, stop_, futures, owner>>
    /\ UNCHANGED nonPoolVars

\* a wait may end without a notification
SpuriousWake(w) ==
    /\ workers_[w] = "wait"
    /\ workers_' = [workers_ EXCEPT ![w] = "wake"]
    /\ UNCHANGED <<task, tasks_, queueMutex_, stop_, futures, owner>>
    /\ UNCHANGED nonPoolVars

TasksPopSkipped(tasks) == tasks

\* tasks_.pop()
TasksPop(tasks) == Tail(tasks)

\* if (stop_ && tasks_.empty()) return; task = front(); pop(); } (unlock)
\* front() of an empty queue is undefined: the worker is then at "undefined".
WorkerCheck(w) ==
    /\ workers_[w] = "check"
    /\ queueMutex_' = 0
    /\ IF stop_ /\ tasks_ = <<>>
       THEN /\ workers_' = [workers_ EXCEPT ![w] = "exited"]
            /\ UNCHANGED <<task, tasks_>>
       ELSE IF tasks_ = <<>>
       THEN /\ workers_' = [workers_ EXCEPT ![w] = "undefined"]
            /\ UNCHANGED <<task, tasks_>>
       ELSE /\ task' = [task EXCEPT ![w] = Head(tasks_)]
            /\ tasks_' = TasksPop(tasks_)
            /\ workers_' = [workers_ EXCEPT ![w] = "run"]
    /\ UNCHANGED <<stop_, futures, owner>>
    /\ UNCHANGED nonPoolVars

\* task(): the packaged_task runs and makes its future ready
WorkerRun(w) ==
    /\ workers_[w] = "run"
    /\ futures' = [futures EXCEPT ![task[w]] = "ready"]
    /\ task' = [task EXCEPT ![w] = 0]
    /\ workers_' = [workers_ EXCEPT ![w] = "loop"]
    /\ UNCHANGED <<tasks_, queueMutex_, stop_, owner>>
    /\ UNCHANGED nonPoolVars

WorkerStep(w) ==
    \/ WorkerLoop(w)
    \/ WorkerPred(w)
    \/ WorkerBlock(w)
    \/ WorkerCheck(w)
    \/ WorkerRun(w)

\* submit(): get_future, then { lock; tasks_.emplace(...); } unlock
Submit ==
    /\ owner = "run"
    /\ Len(futures) < MaxTasks
    /\ queueMutex_ = 0
    /\ tasks_' = Append(tasks_, Len(futures) + 1)
    /\ futures' = Append(futures, "pending")
    /\ owner' = "notify"
    /\ UNCHANGED <<workers_, task, queueMutex_, stop_>>
    /\ UNCHANGED nonPoolVars

\* condition_.notify_one(); return res;
SubmitNotify ==
    /\ owner = "notify"
    /\ owner' = "run"
    /\ IF NotifyOne = {} THEN UNCHANGED workers_
       ELSE \E w \in NotifyOne : workers_' = [workers_ EXCEPT ![w] = "wake"]
    /\ UNCHANGED <<task, tasks_, queueMutex_, stop_, futures>>
    /\ UNCHANGED nonPoolVars

\* ~ThreadPool(): stop_ = true;
DtorStop ==
    /\ owner = "run"
    /\ stop_' = TRUE
    /\ owner' = "dtor_notify"
    /\ UNCHANGED <<workers_, task, tasks_, queueMutex_, futures>>
    /\ UNCHANGED nonPoolVars

\* condition_.notify_all();
DtorNotifyAll ==
    /\ owner = "dtor_notify"
    /\ workers_' = [w \in Workers |-> IF workers_[w] = "wait" THEN "wake" ELSE workers_[w]]
    /\ owner' = "dtor_join"
    /\ UNCHANGED <<task, tasks_, queueMutex_, stop_, futures>>
    /\ UNCHANGED nonPoolVars

\* the loop of join() calls: returns once every worker thread has returned
DtorJoin ==
    /\ owner = "dtor_join"
    /\ \A w \in Workers : workers_[w] = "exited"
    /\ owner' = "done"
    /\ UNCHANGED <<workers_, task, tasks_, queueMutex_, stop_, futures>>
    /\ UNCHANGED nonPoolVars

PoolNext ==
    \/ \E w \in Workers : WorkerStep(w)
    \/ \E w \in Workers : WorkerLock(w)
    \/ \E w \in Workers : WorkerWake(w)
    \/ \E w \in Workers : SpuriousWake(w)
    \/ Submit
    \/ SubmitNotify
    \/ DtorStop
    \/ DtorNotifyAll
    \/ DtorJoin

\* Every thread that can take a step is scheduled: a worker's steps that wait
\* for nothing and the owner's steps inside submit and the destructor are
\* weakly fair; a worker waiting for queueMutex_, which other threads hold
\* only for a bounded stretch, gets it (strong fairness).  Nothing obliges a
\* wait to end spuriously, the owner to submit, or the destructor to start.
PoolFairness ==
    /\ \A w \in Workers : WF_vars(WorkerStep(w))
    /\ \A w \in Workers : SF_vars(WorkerLock(w))
    /\ \A w \in Workers : SF_vars(WorkerWake(w))
    /\ WF_vars(SubmitNotify)
    /\ WF_vars(DtorNotifyAll)
    /\ WF_vars(DtorJoin)

PoolSpec == Init /\ [][PoolNext]_vars /\ PoolFairness

\* ------------------------------------------------------ engine and pruner
\* The Orderbook with its pruner thread, one client thread and the thread
\* that destroys the Orderbook.  ordersPruneThread_.pc is the pruner's
\* position in PruneGoodForDayOrders():
\*   "compute" computing `till`               "lock" at unique_lock ordersLock
\*   "check"   mutex held, at shutdown_.load  "block" flag read false, at wait_for
\*   "wait"    blocked in wait_for, mutex released
\*   "notified" / "timeout"  the wait has ended and re-acquires the mutex
\*   "collect" at the scoped_lock of the id loop
\*   "cancel"  at CancelOrders(orderIds)      "exited" returned
\* The client's AddOrder and CancelOrder calls are each one locked section;
\* its orders are GoodTillCancel or GoodForDay.
EngineOrderTypes == {"GoodTillCancel", "GoodForDay"}

PrunerAt(p) == ordersPruneThread_.pc = p

PrunerGoto(p) == ordersPruneThread_' = [ordersPruneThread_ EXCEPT !.pc = p]

\* every order in which the loop over orders_ (an unordered_map) can visit ids
Orderings(S) ==
    {s \in [1..Cardinality(S) -> S] : \A i, j \in 1..Cardinality(S) : i # j => s[i] # s[j]}

GoodForDayIds(b) == {i \in DOMAIN b.orders : b.orders[i].type = "GoodForDay"}

CancelOrdersLoopFirst(b, orderIds) ==
    IF orderIds = <<>> THEN b ELSE CancelOrderInternal(b, Head(orderIds))

\* for (const auto& orderId : orderIds) CancelOrderInternal(orderId);
RECURSIVE CancelOrdersLoop(_, _)
CancelOrdersLoop(b, orderIds) ==
    IF orderIds = <<>> THEN b
    ELSE CancelOrdersLoop(CancelOrderInternal(b, Head(orderIds)), Tail(orderIds))

\* the top of the loop: the orderIds of the iteration before are gone; the
\* computation of `next` and `till`
PrunerCompute ==
    /\ PrunerAt("compute")
    /\ ordersPruneThread_' = [pc |-> "lock", orderIds |-> <<>>]
    /\ UNCHANGED <<bookVars, ordersMutex_, clock, shutdown_, engine>>
    /\ UNCHANGED nonEngineVars

\* std::unique_lock ordersLock{ ordersMutex_ };
PrunerLock ==
    /\ PrunerAt("lock")
    /\ ordersMutex_ = "free"
    /\ ordersMutex_' = "pruner"
    /\ PrunerGoto("check")
    /\ UNCHANGED <<bookVars, clock, shutdown_, engine>>
    /\ UNCHANGED nonEngineVars

\* if (shutdown_.load(acquire) || ...) return;
PrunerCheck ==
    /\ PrunerAt("check")
    /\ IF shutdown_
       THEN /\ PrunerGoto("exited")
            /\ ordersMutex_' = "free"
       ELSE /\ PrunerGoto("block")
            /\ UNCHANGED ordersMutex_
    /\ UNCHANGED <<bookVars, clock, shutdown_, engine>>
    /\ UNCHANGED nonEngineVars

\* shutdownConditionVariable_.wait_for(ordersLock, till): unlock and block
PrunerBlock ==
    /\ PrunerAt("block")
    /\ ordersMutex_' = "free"
    /\ PrunerGoto("wait")
    /\ UNCHANGED <<bookVars, clock, shutdown_, engine>>
    /\ UNCHANGED nonEngineVars

\* the deadline passes while the pruner is blocked
PrunerTimeout ==
    /\ PrunerAt("wait")
    /\ PrunerGoto("timeout")
    /\ UNCHANGED <<bookVars, ordersMutex_, clock, shutdown_, engine>>
    /\ UNCHANGED nonEngineVars

\* the wait ends with neither a notification nor the deadline
PrunerSpuriousWake ==
    /\ PrunerAt("wait")
    /\ PrunerGoto("notified")
    /\ UNCHANGED <<bookVars, ordersMutex_, clock, shutdown_, engine>>
    /\ UNCHANGED nonEngineVars

\* wait_for re-locks and returns no_timeout: return;
PrunerReturn ==
    /\ PrunerAt("notified")
    /\ ordersMutex_ = "free"
    /\ PrunerGoto("exited")
    /\ UNCHANGED <<bookVars, ordersMutex_, clock, shutdown_, engine>>
    /\ UNCHANGED nonEngineVars

\* wait_for re-locks and returns timeout; the block ends and unlocks
PrunerTimedOut ==
    /\ PrunerAt("timeout")
    /\ ordersMutex_ = "free"
    /\ PrunerGoto("collect")
    /\ UNCHANGED <<bookVars, ordersMutex_, clock, shutdown_, engine>>
    /\ UNCHANGED nonEngineVars

\* the locked loop that collects the ids of the GoodForDay orders
PrunerCollect ==
    /\ PrunerAt("collect")
    /\ ordersMutex_ = "free"
    /\ \E orderIds \in Orderings(GoodForDayIds(Book)) :
         ordersPruneThread_' = [pc |-> "cancel", orderIds |-> orderIds]
    /\ UNCHANGED <<bookVars, ordersMutex_, clock, shutdown_, engine>>
    /\ UNCHANGED nonEngineVars

\* CancelOrders(orderIds);
PrunerCancelOrders ==
    /\ PrunerAt("cancel")
    /\ ordersMutex_ = "free"
    /\ SetBook(CancelOrdersLoop(Book, ordersPruneThread_.orderIds))
    /\ PrunerGoto("compute")
    /\ UNCHANGED <<ordersMutex_, clock, shutdown_, engine>>
    /\ UNCHANGED nonEngineVars

\* ~Orderbook(): shutdown_.store(true, release);
EngineStore ==
    /\ engine = "run"
    /\ shutdown_' = TRUE
    /\ engine' = "notify"
    /\ UNCHANGED <<bookVars, ordersMutex_, clock, ordersPruneThread_>>
    /\ UNCHANGED nonEngineVars

\* shutdownConditionVariable_.notify_one();
EngineNotifyOne ==
    /\ engine = "notify"
    /\ engine' = "join"
    /\ IF PrunerAt("wait") THEN PrunerGoto("notified") ELSE UNCHANGED ordersPruneThread_
    /\ UNCHANGED <<bookVars, ordersMutex_, clock, shutdown_>>
    /\ UNCHANGED nonEngineVars

\* ordersPruneThread_.join();
EngineJoin ==
    /\ engine = "join"
    /\ PrunerAt("exited")
    /\ engine' = "done"
    /\ UNCHANGED <<bookVars, ordersMutex_, clock, shutdown_, ordersPruneThread_>>
    /\ UNCHANGED nonEngineVars

\* AddOrder by the client while the Orderbook is alive
EngineAddOrder(type, id, side, price, qty) ==
    /\ engine = "run"
    /\ ordersMutex_ = "free"
    /\ clock < MaxOps
    /\ clock' = clock + 1
    /\ \E dangling \in {"stale", "poison"} :
         SetBook(AddOrderLocked(Book, NewOrder(type, id, side, price, qty, clock), dangling).book)
    /\ UNCHANGED <<ordersMutex_, shutdown_, ordersPruneThread_, engine>>
    /\ UNCHANGED nonEngineVars

\* CancelOrder by the client while the Orderbook is alive
EngineCancelOrder(orderId) ==
    /\ engine = "run"
    /\ ordersMutex_ = "free"
    /\ clock < MaxOps
    /\ clock' = clock + 1
    /\ SetBook(CancelOrderInternal(Book, orderId))
    /\ UNCHANGED <<ordersMutex_, shutdown_, ordersPruneThread_, engine>>
    /\ UNCHANGED nonEngineVars

EngineNext ==
    \/ PrunerCompute
    \/ PrunerLock
    \/ PrunerCheck
    \/ PrunerBlock
    \/ PrunerTimeout
    \/ PrunerSpuriousWake
    \/ PrunerReturn
    \/ PrunerTimedOut
    \/ PrunerCollect
    \/ PrunerCancelOrders
    \/ EngineStore
    \/ EngineNotifyOne
    \/ EngineJoin
    \/ \E type \in EngineOrderTypes, id \in OrderIds, side \in Sides, price \in Prices, qty \in Quantities :
         EngineAddOrder(type, id, side, price, qty)
    \/ \E id \in DOMAIN orders_ : EngineCancelOrder(id)

EngineSpec == Init /\ [][EngineNext]_vars

\* ------------------------------------------------------ concurrent clients
\* Two client threads call AddOrder, CancelOrder, ModifyOrder and Size, and a
\* reader calls GetOrderInfos, all on one Orderbook.  ordersMutex_ is "free"
\* or the client that holds it.  threads[t].pc is the position of client t:
\*   "idle"          between calls
\*   "add_match"     in AddOrder with the mutex held: the order is inserted,
\*                   MatchOrders() comes next
\*   "modify_cancel" in ModifyOrder after its first locked section
\*   "modify_add"    in ModifyOrder after CancelOrder returned
\* The orders are GoodTillCancel.
\* the record of a client that has returned from its call
Returned(r) == [ThreadIdle EXCEPT !.vanished = r.vanished, !.torn = r.torn]

\* AddOrder up to the call of MatchOrders: the admission checks and the
\* insert.  modify: the call is the one that ends ModifyOrder.
ConcurrentAddOrderBody(t, o, modify) ==
    LET a == AddOrderAdmit(Book, o)
        r == [threads[t] EXCEPT !.torn = @ \/ (modify /\ (a.tag = "duplicate" \/ threads[t].vanished))]
    IN  IF a.tag # "admitted"
        THEN /\ threads' = [threads EXCEPT ![t] = Returned(r)]
             /\ UNCHANGED <<bookVars, ordersMutex_>>
        ELSE /\ SetBook(AddOrderInsert(Book, a.order))
             /\ ordersMutex_' = t
             /\ threads' = [threads EXCEPT ![t] = [r EXCEPT !.pc = "add_match"]]

ConcurrentAddOrder(t, id, side, price, qty) ==
    /\ threads[t].pc = "idle"
    /\ ordersMutex_ = "free"
    /\ clock < MaxOps
    /\ clock' = clock + 1
    /\ ConcurrentAddOrderBody(t, NewOrder("GoodTillCancel", id, side, price, qty, clock), FALSE)
    /\ UNCHANGED infos
    /\ UNCHANGED nonThreadVars

\* return MatchOrders(); and the release of the mutex
ConcurrentMatchOrders(t) ==
    /\ threads[t].pc = "add_match"
    /\ ordersMutex_ = t
    /\ \E dangling \in {"stale", "poison"} :
         SetBook(MatchLoop([book |-> Book, trades |-> <<>>, hist |-> <<>>], dangling).book)
    /\ ordersMutex_' = "free"
    /\ threads' = [threads EXCEPT ![t] = Returned(threads[t])]
    /\ UNCHANGED <<clock, infos>>
    /\ UNCHANGED nonThreadVars

ConcurrentCancelOrder(t, orderId) ==
    /\ threads[t].pc = "idle"
    /\ ordersMutex_ = "free"
    /\ clock < MaxOps
    /\ clock' = clock + 1
    /\ SetBook(CancelOrderInternal(Book, orderId))
    /\ UNCHANGED <<ordersMutex_, threads, infos>>
    /\ UNCHANGED nonThreadVars

\* Size(): qty stands for the value returned
ConcurrentSize(t) ==
    /\ threads[t].pc = "idle"
    /\ ordersMutex_ = "free"
    /\ clock < MaxOps
    /\ clock' = clock + 1
    /\ threads' = [threads EXCEPT ![t].qty = Cardinality(DOMAIN orders_)]
    /\ UNCHANGED <<bookVars, ordersMutex_, infos>>
    /\ UNCHANGED nonThreadVars

\* ModifyOrder, first locked section: existence check, read of the type
ConcurrentModifyOrder(t, id, side, price, qty) ==
    /\ threads[t].pc = "idle"
    /\ ordersMutex_ = "free"
    /\ clock < MaxOps
    /\ clock' = clock + 1
    /\ threads' = [threads EXCEPT ![t] =
         IF id \notin DOMAIN orders_ THEN ThreadIdle
         ELSE [pc |-> "modify_cancel", id |-> id, side |-> side, price |-> price, qty |-> qty,
               type |-> orders_[id].type, vanished |-> FALSE, torn |-> FALSE]]
    /\ UNCHANGED <<bookVars, ordersMutex_, infos>>
    /\ UNCHANGED nonThreadVars

\* CancelOrder(order.GetOrderId()) inside ModifyOrder
ConcurrentModifyCancel(t) ==
    /\ threads[t].pc = "modify_cancel"
    /\ ordersMutex_ = "free"
    /\ SetBook(CancelOrderInternal(Book, threads[t].id))
    /\ threads' = [threads EXCEPT ![t].pc = "modify_add",
                                  ![t].vanished = threads[t].id \notin DOMAIN orders_]
    /\ UNCHANGED <<ordersMutex_, clock, infos>>
    /\ UNCHANGED nonThreadVars

\* return AddOrder(order.ToOrderPointer(orderType)) inside ModifyOrder
ConcurrentModifyAdd(t) ==
    /\ threads[t].pc = "modify_add"
    /\ ordersMutex_ = "free"
    /\ ConcurrentAddOrderBody(t, ToOrderPointer(threads[t], threads[t].type, clock), TRUE)
    /\ UNCHANGED <<clock, infos>>
    /\ UNCHANGED nonThreadVars

\* GetOrderInfos(SequentialStrategy()) on the reader's thread: no lock is
\* taken, so the maps are read as they are at that moment, whoever holds
\* ordersMutex_.  The reader takes one snapshot.
ConcurrentGetOrderInfos ==
    /\ ~infos.completed
    /\ infos' = SequentialSnapshot(Book)
    /\ UNCHANGED <<bookVars, ordersMutex_, clock, threads>>
    /\ UNCHANGED nonThreadVars

ConcurrentNext ==
    \/ \E t \in Clients, id \in OrderIds, side \in Sides, price \in Prices, qty \in Quantities :
         ConcurrentAddOrder(t, id, side, price, qty)
    \/ \E t \in Clients : ConcurrentMatchOrders(t)
    \/ \E t \in Clients, id \in OrderIds : ConcurrentCancelOrder(t, id)
    \/ \E t \in Clients : ConcurrentSize(t)
    \/ \E t \in Clients, id \in OrderIds, side \in Sides, price \in Prices, qty \in Quantities :
         ConcurrentModifyOrder(t, id, side, price, qty)
    \/ \E t \in Clients : ConcurrentModifyCancel(t)
    \/ \E t \in Clients : ConcurrentModifyAdd(t)
    \/ ConcurrentGetOrderInfos

ConcurrentSpec == Init /\ [][ConcurrentNext]_vars

\* ------------------------------------------------ submitBatches, stepwise
\* One call submitBatches(container) of ThreadPoolSnapshot::Generate on a
\* side of 1 .. MaxLevels price levels, with hardware_concurrency() equal to
\* shard.hardwareConcurrency.  The container holds the prices 1 .. n, one
\* order at each, shard.container[p] being its remaining quantity.
\* shard.pc: "submit" in the loop that submits the batches, "combine" in the
\* loop over the futures, "done" once combinedInfos is returned.  A future is
\* held as its batch's bounds and the value its get() returns; positions are
\* those of the side's iteration order, end() being numElements + 1.
ShardOrders(side, container) ==
    [p \in DOMAIN container |-> NewOrder("GoodTillCancel", p, side, p, container[p], 0)]

ShardSide(container) == [p \in DOMAIN container |-> <<p>>]

ShardLevels(side, container) ==
    IF side = "Buy" THEN BidLevels(ShardSide(container)) ELSE AskLevels(ShardSide(container))

\* std::max(1u, std::thread::hardware_concurrency())
HardwareThreads(hardwareConcurrency) == IF hardwareConcurrency > 1 THEN hardwareConcurrency ELSE 1

\* std::min(hardwareThreads, numElements)
NumBatches(numElements, hardwareConcurrency) ==
    IF HardwareThreads(hardwareConcurrency) < numElements
    THEN HardwareThreads(hardwareConcurrency) ELSE numElements

BatchEndNoLeftover(i, it, numBatches, batchSize, numElements) == it + batchSize

\* (i == numBatches - 1) ? container.end() : std::next(it, batchSize)
BatchEnd(i, it, numBatches, batchSize, numElements) ==
    IF i = numBatches - 1 THEN numElements + 1 ELSE it + batchSize

ShardInit ==
    /\ InitBook
    /\ InitPool
    /\ InitEngine
    /\ InitThreads
    /\ \E side \in Sides, numElements \in 1..MaxLevels, hardwareConcurrency \in HardwareConcurrency :
         \E container \in [1..numElements -> Quantities] :
           shard = [pc |-> "submit", side |-> side, container |-> container,
                    hardwareConcurrency |-> hardwareConcurrency,
                    numBatches |-> NumBatches(numElements, hardwareConcurrency),
                    batchSize |-> numElements \div NumBatches(numElements, hardwareConcurrency),
                    i |-> 0, it |-> 1, futures |-> <<>>, combinedInfos |-> <<>>]

\* one iteration of for (size_t i = 0; i < numBatches; ++i)
ShardSubmit ==
    /\ shard.pc = "submit"
    /\ shard.i < shard.numBatches
    /\ LET numElements == Len(shard.container)
           batchEnd == BatchEnd(shard.i, shard.it, shard.numBatches, shard.batchSize, numElements)
           localInfos == BatchProcess(ShardOrders(shard.side, shard.container), ShardSide(shard.container),
                                      ShardLevels(shard.side, shard.container), shard.it, batchEnd)
       IN  shard' = [shard EXCEPT !.futures = Append(@, [batchStart |-> shard.it, batchEnd |-> batchEnd,
                                                         localInfos |-> localInfos]),
                                  !.it = batchEnd,
                                  !.i = @ + 1]
    /\ UNCHANGED nonShardVars

\* the loop ends: combinedInfos is declared
ShardSubmitted ==
    /\ shard.pc = "submit"
    /\ shard.i >= shard.numBatches
    /\ shard' = [shard EXCEPT !.pc = "combine", !.i = 0]
    /\ UNCHANGED nonShardVars

\* one iteration of for (auto& fut : futures): get() and insert at the end
ShardCombine ==
    /\ shard.pc = "combine"
    /\ shard.i < Len(shard.futures)
    /\ shard' = [shard EXCEPT !.combinedInfos = @ \o shard.futures[shard.i + 1].localInfos,
                              !.i = @ + 1]
    /\ UNCHANGED nonShardVars

\* return combinedInfos;
ShardReturn ==
    /\ shard.pc = "combine"
    /\ shard.i >= Len(shard.futures)
    /\ shard' = [shard EXCEPT !.pc = "done"]
    /\ UNCHANGED nonShardVars

ShardNext ==
    \/ ShardSubmit
    \/ ShardSubmitted
    \/ ShardCombine
    \/ ShardReturn

ShardSpec == ShardInit /\ [][ShardNext]_vars

\* ------------------------------------------------------------------ claims
\* ---------------------------------------------------- shared vocabulary
Idle == pc = "idle"

LiveOrders(b, side) == {b.orders[i] : i \in {j \in DOMAIN b.orders : b.orders[j].side = side}}

RECURSIVE SumRemaining(_)
SumRemaining(S) ==
    IF S = {} THEN 0
    ELSE LET o == CHOOSE x \in S : TRUE IN o.remaining + SumRemaining(S \ {o})

RECURSIVE TradedQuantity(_, _)
TradedQuantity(ts, id) ==
    IF ts = <<>> THEN 0
    ELSE (IF Head(ts).bid.orderId = id \/ Head(ts).ask.orderId = id THEN Head(ts).bid.quantity ELSE 0)
         + TradedQuantity(Tail(ts), id)

InSomeQueue(b, id) ==
    \/ \E p \in DOMAIN b.bids : \E i \in 1..Len(b.bids[p]) : b.bids[p][i] = id
    \/ \E p \in DOMAIN b.asks : \E i \in 1..Len(b.asks[p]) : b.asks[p][i] = id

\* ---------------------------------------------------------------- C1
\* C1: after any AddOrder call has returned (and in every other reachable
\* state of the book), the bid side is empty, or the ask side is empty, or
\* the highest bid price is strictly below the lowest ask price; the same
\* holds of the live orders of the order index.
C1_CrossingTermination ==
    /\ \/ DOMAIN bids_ = {}
       \/ DOMAIN asks_ = {}
       \/ SetMax(DOMAIN bids_) < SetMin(DOMAIN asks_)
    /\ \A b \in LiveOrders(Book, "Buy"), a \in LiveOrders(Book, "Sell") : b.price < a.price

C1_Witness ==
    /\ Idle
    /\ last.op = "Add"
    /\ trades # <<>>
    /\ DOMAIN bids_ # {}
    /\ DOMAIN asks_ # {}

\* ---------------------------------------------------------------- C2
\* C2: price-time priority.  For every trade of the last AddOrder, judged
\* against the order index as it was just before that trade: the bid leg is
\* a live buy order, no live buy order has a strictly higher price, and none
\* at the same price arrived earlier; symmetrically for the ask leg (no
\* strictly lower ask, none earlier at the same price).  The trade list is
\* ordered best price first: bid prices never rise and ask prices never
\* fall along the list.
C2_PriceTimePriority ==
    /\ Len(hist) = Len(trades)
    /\ \A i \in 1..Len(trades) :
         LET t == trades[i]
             H == hist[i]
         IN  /\ t.bid.orderId \in DOMAIN H
             /\ t.ask.orderId \in DOMAIN H
             /\ H[t.bid.orderId].side = "Buy"
             /\ H[t.ask.orderId].side = "Sell"
             /\ \A j \in DOMAIN H :
                  /\ H[j].side = "Buy" =>
                       /\ H[j].price <= H[t.bid.orderId].price
                       /\ H[j].price = H[t.bid.orderId].price => H[j].seq >= H[t.bid.orderId].seq
                  /\ H[j].side = "Sell" =>
                       /\ H[j].price >= H[t.ask.orderId].price
                       /\ H[j].price = H[t.ask.orderId].price => H[j].seq >= H[t.ask.orderId].seq
    /\ \A i \in 1..Len(trades), j \in 1..Len(trades) :
         i < j => /\ trades[i].bid.price >= trades[j].bid.price
                  /\ trades[i].ask.price <= trades[j].ask.price

\* two resting orders traded against one incoming order: either two makers of
\* one price level in arrival order, or two price levels best first
C2_Witness ==
    /\ Idle
    /\ Len(trades) = 2
    /\ \/ /\ trades[1].bid.price = trades[2].bid.price
          /\ trades[1].bid.orderId # trades[2].bid.orderId
       \/ trades[1].bid.price > trades[2].bid.price

\* ---------------------------------------------------------------- C3
\* C3: matching does not suspend: the thread that runs AddOrder never calls
\* lock() on ordersMutex_ while it already owns it, so it never blocks on
\* its own mutex and every call releases the mutex.
C3_NoRelock ==
    /\ pc \notin {"relock_bid", "relock_ask", "hung"}
    /\ Idle => ordersMutex_ = "free"

FreshIds == OrderIds \ DOMAIN orders_

Danglings == {"stale", "poison"}

Relocks == {"reenter", "deadlock"}

Opposite(side) == IF side = "Buy" THEN "Sell" ELSE "Buy"

\* a resting order at `resting` is at-or-better for an incoming order of
\* `side` with limit `limit`
AtOrBetter(side, resting, limit) == IF side = "Buy" THEN resting <= limit ELSE resting >= limit

\* remaining quantity of all live opposite-side orders at-or-better than limit
OppositeDepth(b, side, limit) ==
    SumRemaining({x \in LiveOrders(b, Opposite(side)) : AtOrBetter(side, x.price, limit)})

\* ---------------------------------------------------------------- C5
\* C5: FillOrKill admission.  In every reachable book state between calls,
\* AddOrder of a FillOrKill order with a fresh id is inserted and matched if
\* and only if the remaining quantity of the live opposite-side orders priced
\* at-or-better than its limit sums to at least its quantity; otherwise it
\* returns an empty trade list.
C5_FillOrKillAdmission ==
    Idle =>
      \A id \in FreshIds, side \in Sides, price \in Prices, qty \in Quantities,
         dangling \in Danglings, relock \in Relocks :
        LET o == NewOrder("FillOrKill", id, side, price, qty, clock)
            r == AddOrderCall(Book, o, dangling, relock)
        IN  /\ (r.tag = "admitted") <=> (OppositeDepth(Book, side, price) >= qty)
            /\ r.tag # "admitted" => r.trades = <<>>

\* ---------------------------------------------------------------- C6
\* C6: FillOrKill is all-or-nothing.  No FillOrKill order rests in the book
\* between calls, and in every reachable book state an AddOrder of a
\* FillOrKill order with a fresh id either produces no trades and leaves the
\* order out of the book, or produces trades that fill its whole quantity.
C6_FillOrKillAllOrNothing ==
    Idle =>
      /\ \A i \in DOMAIN orders_ : orders_[i].type # "FillOrKill"
      /\ \A id \in FreshIds, side \in Sides, price \in Prices, qty \in Quantities,
            dangling \in Danglings, relock \in Relocks :
           LET o == NewOrder("FillOrKill", id, side, price, qty, clock)
               r == AddOrderCall(Book, o, dangling, relock)
           IN  r.returned =>
                 /\ id \notin DOMAIN r.book.orders
                 /\ \/ r.trades = <<>>
                    \/ TradedQuantity(r.trades, id) = qty

\* ---------------------------------------------------------------- C7
\* C7: Market conversion.  AddOrder of a Market order with a fresh id is
\* admitted exactly when the opposite side is non-empty; it then trades at
\* the worst opposite resting price (highest ask for a buy, lowest bid for a
\* sell) as its limit, and after the call either it is fully filled and not
\* in the book, or the opposite side is empty and what is left of it rests
\* as a GoodTillCancel order at that price.  No live order has type Market.
C7_MarketConversion ==
    /\ \A i \in DOMAIN orders_ : orders_[i].type # "Market"
    /\ (Idle /\ last.op = "Add" /\ last.type = "Market" /\ last.tag # "duplicate") =>
         LET opp == LiveOrders(prev, Opposite(last.side))
             worst == IF last.side = "Buy" THEN SetMax({x.price : x \in opp})
                      ELSE SetMin({x.price : x \in opp})
             traded == TradedQuantity(trades, last.id)
         IN  /\ (last.tag = "admitted") <=> (opp # {})
             /\ last.tag = "admitted" =>
                  /\ \A i \in 1..Len(trades) :
                       IF last.side = "Buy" THEN trades[i].bid.orderId = last.id /\ trades[i].bid.price = worst
                       ELSE trades[i].ask.orderId = last.id /\ trades[i].ask.price = worst
                  /\ \/ /\ last.id \notin DOMAIN orders_
                        /\ ~InSomeQueue(Book, last.id)
                        /\ traded = last.qty
                     \/ /\ LiveOrders(Book, Opposite(last.side)) = {}
                        /\ last.id \in DOMAIN orders_
                        /\ orders_[last.id].type = "GoodTillCancel"
                        /\ orders_[last.id].price = worst
                        /\ orders_[last.id].side = last.side
                        /\ orders_[last.id].remaining = last.qty - traded
                        /\ orders_[last.id].remaining > 0
                        /\ InSomeQueue(Book, last.id)

\* a Market order swept the opposite side and its residual rests
C7_Witness ==
    /\ Idle
    /\ last.op = "Add"
    /\ last.type = "Market"
    /\ last.tag = "admitted"
    /\ trades # <<>>
    /\ last.id \in DOMAIN orders_
    /\ orders_[last.id].type = "GoodTillCancel"

\* ---------------------------------------------------------------- C8
\* C8: silent no-ops change nothing.  In every reachable book state between
\* calls: AddOrder with a live id, AddOrder of a FillAndKill order that no
\* opposite order crosses, AddOrder of a Market order when no opposite order
\* is live, AddOrder of a FillOrKill order when the opposite depth
\* at-or-better than its limit is below its quantity, CancelOrder of an
\* unknown id and ModifyOrder of an unknown id each return no trades and
\* leave bids_, asks_, orders_ and data_ as they were.
NoOpResult(r) == r.returned /\ r.trades = <<>> /\ r.book = Book

C8_DuplicateNoOp ==
    \A type \in OrderTypes, id \in DOMAIN orders_, side \in Sides, price \in Prices,
       qty \in Quantities, dangling \in Danglings, relock \in Relocks :
      NoOpResult(AddOrderCall(Book, NewOrder(type, id, side, price, qty, clock), dangling, relock))

C8_RejectedNoOp(type) ==
    \A id \in FreshIds, side \in Sides, price \in Prices, qty \in Quantities,
       dangling \in Danglings, relock \in Relocks :
      LET silent == CASE type = "FillAndKill" -> OppositeDepth(Book, side, price) = 0
                      [] type = "Market" -> LiveOrders(Book, Opposite(side)) = {}
                      [] OTHER -> OppositeDepth(Book, side, price) < qty
      IN  silent =>
            NoOpResult(AddOrderCall(Book, NewOrder(type, id, side, price, qty, clock), dangling, relock))

C8_UnknownIdNoOp ==
    \A id \in FreshIds :
      /\ CancelOrderInternal(Book, id) = Book
      /\ \A side \in Sides, price \in Prices, qty \in Quantities,
            dangling \in Danglings, relock \in Relocks :
           NoOpResult(ModifyOrderCall(Book, [id |-> id, side |-> side, price |-> price, qty |-> qty],
                                      clock, dangling, relock))

C8_SilentNoOps ==
    Idle =>
      /\ C8_DuplicateNoOp
      /\ C8_RejectedNoOp("FillAndKill")
      /\ C8_RejectedNoOp("Market")
      /\ C8_RejectedNoOp("FillOrKill")
      /\ C8_UnknownIdNoOp

\* ---------------------------------------------------------------- C9
\* C9: round trip.  From every reachable book state between calls,
\* AddOrder(o) for an order o with a fresh id that does not trade, followed
\* by CancelOrder(o.id), leaves bids_, asks_, orders_ and data_ as they were
\* before the AddOrder.
C9_RoundTrip ==
    Idle =>
      \A type \in OrderTypes, id \in FreshIds, side \in Sides, price \in Prices,
         qty \in Quantities, dangling \in Danglings, relock \in Relocks :
        LET r == AddOrderCall(Book, NewOrder(type, id, side, price, qty, clock), dangling, relock)
        IN  (r.returned /\ r.trades = <<>>) => CancelOrderInternal(r.book, id) = Book

\* ---------------------------------------------------------------- C10
\* C10: Modify semantics (single caller).  When ModifyOrder(id, side',
\* price', q') on a live id has returned, the book and the returned trades
\* are those of CancelOrder(id) followed by AddOrder of a fresh order with
\* the same id, the prior order's type and the new side, price and quantity,
\* both applied to the book as it was before the call; if the order is live
\* afterwards it is the last one of its price-level queue.
C10_ModifyIsCancelThenAdd ==
    (Idle /\ last.op = "Modify" /\ last.tag # "unknown") =>
      /\ last.id \in DOMAIN prev.orders
      /\ \E dangling \in Danglings :
           LET o == NewOrder(prev.orders[last.id].type, last.id, last.side, last.price,
                             last.qty, clock - 1)
               r == AddOrderCall(CancelOrderInternal(prev, last.id), o, dangling, "reenter")
           IN  /\ Book = r.book
               /\ trades = r.trades
      /\ last.id \in DOMAIN orders_ =>
           LET q == IF orders_[last.id].side = "Buy" THEN bids_[orders_[last.id].price]
                    ELSE asks_[orders_[last.id].price]
           IN  q[Len(q)] = last.id

\* a modified order went to the back of a queue that holds an older order
C10_Witness ==
    /\ Idle
    /\ last.op = "Modify"
    /\ last.tag = "admitted"
    /\ last.id \in DOMAIN orders_
    /\ last.side = "Buy"
    /\ last.price \in DOMAIN bids_
    /\ Len(bids_[last.price]) = 2
    /\ bids_[last.price][2] = last.id
    /\ orders_[bids_[last.price][1]].seq < orders_[last.id].seq

\* ---------------------------------------------------------------- C19
LiveAt(b, p) == {b.orders[i] : i \in {j \in DOMAIN b.orders : b.orders[j].price = p}}

RestingPrices(b) == {b.orders[i].price : i \in DOMAIN b.orders}

\* C19: conservation of quantity.  Between calls, after any sequence of
\* AddOrder, CancelOrder and ModifyOrder, every price p at which a live order
\* rests has an entry in data_, and that entry's quantity_ is the sum of the
\* remaining quantities of the live orders at p.
C19_ConservationOfQuantity ==
    Idle =>
      \A p \in RestingPrices(Book) :
        /\ p \in DOMAIN data_
        /\ data_[p].quantity_ = SumRemaining(LiveAt(Book, p))

\* ---------------------------------------------------------------- C20
\* C20: level-aggregate presence.  Between calls, data_ has an entry for
\* price p if and only if at least one live order rests at p, and the
\* entry's count_ is the number of live orders at p.
C20_LevelAggregatePresence ==
    Idle =>
      /\ DOMAIN data_ = RestingPrices(Book)
      /\ \A p \in DOMAIN data_ : data_[p].count_ = Cardinality(LiveAt(Book, p))

\* ---------------------------------------------------------------- C13
\* C13: snapshot equivalence.  For every reachable book state between calls,
\* empty sides included, and for every hardware concurrency, the Sequential,
\* Async, ThreadPool and AsyncThreadPool strategies all complete and return
\* the same bid and ask level sequences.
C13_SnapshotEquivalence ==
    Idle =>
      \A hardwareConcurrency \in HardwareConcurrency, divZero \in DivZeroOutcomes :
        LET sequential == SequentialSnapshot(Book)
        IN  /\ sequential.completed
            /\ \A strategy \in Strategies :
                 Generate(strategy, Book, hardwareConcurrency, divZero) = sequential

\* ---------------------------------------------------------------- C14
SidePrices(b, side) == {o.price : o \in LiveOrders(b, side)}

LiveOn(b, side, p) == {o \in LiveOrders(b, side) : o.price = p}

\* levelInfos holds exactly one entry per price of `side`, each with the sum
\* of the remaining quantity of the live orders of that side at that price
SnapshotSideContent(b, side, levelInfos) ==
    /\ Len(levelInfos) = Cardinality(SidePrices(b, side))
    /\ {levelInfos[i].price_ : i \in 1..Len(levelInfos)} = SidePrices(b, side)
    /\ \A i \in 1..Len(levelInfos) :
         levelInfos[i].quantity_ = SumRemaining(LiveOn(b, side, levelInfos[i].price_))

\* C14: snapshot content.  For every reachable book state the Sequential
\* snapshot has exactly one (price, total) entry per non-empty price level of
\* each side, total is the sum of the remaining quantity of the live orders at
\* that price on that side, bids are in strictly descending and asks in
\* strictly ascending price order; and when GetOrderInfos with the Sequential
\* strategy has returned, the value it returned is that snapshot and bids_,
\* asks_, orders_ and data_ are as they were before the call.
C14_SnapshotContent ==
    /\ LET s == SequentialSnapshot(Book)
       IN  /\ s.completed
           /\ SnapshotSideContent(Book, "Buy", s.bids)
           /\ SnapshotSideContent(Book, "Sell", s.asks)
           /\ \A i \in 1..Len(s.bids), j \in 1..Len(s.bids) : i < j => s.bids[i].price_ > s.bids[j].price_
           /\ \A i \in 1..Len(s.asks), j \in 1..Len(s.asks) : i < j => s.asks[i].price_ < s.asks[j].price_
    /\ (last.op = "Snapshot" /\ last.tag = "Sequential") =>
         /\ infos = SequentialSnapshot(Book)
         /\ Book = prev

\* a Sequential snapshot was returned for a book with two bid levels, one of
\* them holding two orders
C14_Witness ==
    /\ last.op = "Snapshot"
    /\ last.tag = "Sequential"
    /\ Len(infos.bids) = 2
    /\ \E p \in DOMAIN bids_ : Len(bids_[p]) = 2
    /\ infos.bids[1].price_ > infos.bids[2].price_

\* ---------------------------------------------------------------- C16
AllExited == \A w \in Workers : workers_[w] = "exited"

\* C16: worker-pool shutdown terminates.  Once the destructor has set the
\* stop flag, eventually every worker thread has returned and the
\* destructor's joins have returned.
C16_ShutdownTerminates == stop_ ~> (AllExited /\ owner = "done")

\* ---------------------------------------------------------------- C17
\* C17: worker-pool drain on shutdown.  When every worker has exited, and in
\* particular when the destructor has returned, the task queue is empty and
\* the future of every submitted task is ready.
C17_DrainOnShutdown ==
    AllExited =>
      /\ tasks_ = <<>>
      /\ \A k \in 1..Len(futures) : futures[k] = "ready"

\* ---------------------------------------------------------------- C18
\* C18: worker-pool response.  Every task passed to submit is eventually run
\* to completion and its future becomes ready, unless the stop flag is set
\* first.
C18_PoolResponse ==
    \A k \in 1..MaxTasks :
      (Len(futures) >= k) ~> (stop_ \/ (Len(futures) >= k /\ futures[k] = "ready"))

\* the last task was submitted while every worker was blocked in wait, and a
\* worker woken by submit's notification ran it
C18_Witness ==
    /\ ~stop_
    /\ Len(futures) = MaxTasks
    /\ \A k \in 1..MaxTasks : futures[k] = "ready"
    /\ tasks_ = <<>>
    /\ \A w \in Workers : workers_[w] = "wait"

\* ---------------------------------------------------------------- C15
\* C15: the shutdown rendezvous loses no wake-up.  Once the destructor has
\* set the shutdown flag and issued its notification (it is at, or past, the
\* join), the pruner thread is not blocked in its timed wait.
C15_NoLostWakeup ==
    engine \in {"join", "done"} => ~PrunerAt("wait")

\* ---------------------------------------------------------------- C11
\* C11: ModifyOrder is linearizable.  Nothing takes effect between a
\* ModifyOrder's existence check, its cancel and its re-add: the order it
\* found live is still live when its own CancelOrder runs, so it never re-adds
\* an order that another thread's CancelOrder or AddOrder removed in between,
\* and its re-add is never dropped as a duplicate.
C11_ModifyLinearizable ==
    \A t \in Clients : ~threads[t].torn

\* ---------------------------------------------------------------- C12
\* C12: snapshot isolation.  A snapshot returned by GetOrderInfos while
\* other threads call AddOrder, CancelOrder and ModifyOrder shows no
\* intermediate state of an operation: it never shows a crossed book (an
\* order inserted but not yet matched), its best bid is below its best ask.
C12_SnapshotIsolation ==
    infos.completed =>
      \/ infos.bids = <<>>
      \/ infos.asks = <<>>
      \/ infos.bids[1].price_ < infos.asks[1].price_

\* ---------------------------------------------------------------- C21
\* the positions (side, price, place in the queue) at which id is queued
Positions(b, id) ==
    UNION {{<<"Buy", p, i>> : i \in {j \in 1..Len(b.bids[p]) : b.bids[p][j] = id}} : p \in DOMAIN b.bids}
    \cup
    UNION {{<<"Sell", p, i>> : i \in {j \in 1..Len(b.asks[p]) : b.asks[p][j] = id}} : p \in DOMAIN b.asks}

RECURSIVE QueuedCount(_, _)
QueuedCount(side, prices) ==
    IF prices = {} THEN 0
    ELSE LET p == CHOOSE x \in prices : TRUE IN Len(side[p]) + QueuedCount(side, prices \ {p})

\* Size(): orders_.size()
Size == Cardinality(DOMAIN orders_)

\* C21: index consistency.  After every operation each id of orders_ is
\* queued at exactly one position of exactly one price-level queue, on the
\* order's own side at the order's own price; every queued order has an entry
\* in orders_ under its own id; and Size() is the total number of orders queued over both sides.
C21_IndexConsistency ==
    Idle =>
      /\ \A id \in DOMAIN orders_ :
           /\ orders_[id].id = id
           /\ Cardinality(Positions(Book, id)) = 1
           /\ \A x \in Positions(Book, id) : x[1] = orders_[id].side /\ x[2] = orders_[id].price
      /\ \A p \in DOMAIN bids_ : \A i \in 1..Len(bids_[p]) : bids_[p][i] \in DOMAIN orders_
      /\ \A p \in DOMAIN asks_ : \A i \in 1..Len(asks_[p]) : asks_[p][i] \in DOMAIN orders_
      /\ Size = QueuedCount(bids_, DOMAIN bids_) + QueuedCount(asks_, DOMAIN asks_)

\* an AddOrder traded and left orders queued on both sides
C21_Witness ==
    /\ Idle
    /\ last.op = "Add"
    /\ trades # <<>>
    /\ Size = 2
    /\ DOMAIN bids_ # {}
    /\ DOMAIN asks_ # {}

\* ---------------------------------------------------------------- C22
\* C22: empty-level cleanup.  After every AddOrder, CancelOrder or
\* ModifyOrder call no price of bids_ or asks_ maps to an empty queue, and no
\* entry of data_ has count_ 0.
C22_EmptyLevelCleanup ==
    Idle =>
      /\ \A p \in DOMAIN bids_ : bids_[p] # <<>>
      /\ \A p \in DOMAIN asks_ : asks_[p] # <<>>
      /\ \A p \in DOMAIN data_ : data_[p].count_ # 0

\* a CancelOrder removed the only order of a bid level while another bid
\* level stays
C22_Witness ==
    /\ Idle
    /\ last.op = "Cancel"
    /\ last.tag = "cancelled"
    /\ prev.orders[last.id].side = "Buy"
    /\ prev.orders[last.id].price \notin DOMAIN bids_
    /\ prev.orders[last.id].price \notin DOMAIN data_
    /\ DOMAIN bids_ # {}

\* ---------------------------------------------------------------- C23
\* Quantity is std::uint64_t and AddOrder checks no quantity: a caller can
\* pass any value, 0 included
AnyQuantities == 0..MaxQuantity

QuantityInvariant(orders) ==
    \A i \in DOMAIN orders : 0 < orders[i].remaining /\ orders[i].remaining <= orders[i].initial

\* no trade of the last call filled an order by more than the remaining
\* quantity it had just before the trade
FillsWithinRemaining ==
    \A i \in 1..Len(trades) :
      /\ trades[i].bid.quantity <= hist[i][trades[i].bid.orderId].remaining
      /\ trades[i].ask.quantity <= hist[i][trades[i].ask.orderId].remaining

\* C23: order quantity invariant.  Every order that is live after an
\* operation has returned has 0 < remaining <= initial, whatever quantity the
\* operation was called with: no order whose remaining quantity is 0 is left
\* in a queue or in orders_; and no trade fills an order by more than the
\* remaining quantity it had just before the trade.
C23_OrderQuantity ==
    Idle =>
      /\ QuantityInvariant(orders_)
      /\ FillsWithinRemaining
      /\ \A type \in OrderTypes, id \in FreshIds, side \in Sides, price \in Prices,
            qty \in AnyQuantities, dangling \in Danglings, relock \in Relocks :
           LET r == AddOrderCall(Book, NewOrder(type, id, side, price, qty, clock), dangling, relock)
           IN  r.returned => QuantityInvariant(r.book.orders)

\* ---------------------------------------------------------------- C24
\* C24: trade record shape.  For every trade of the last call, judged on the
\* order index as it was just before the trade: the first leg is a buy order
\* and the second a sell order, each leg carries its own order's id and limit
\* price, both legs carry the same quantity, which is the smaller of the two
\* orders' remaining quantities before the fill, and the first leg's price
\* is greater than or equal to the second leg's.
C24_TradeShape ==
    /\ Len(hist) = Len(trades)
    /\ \A i \in 1..Len(trades) :
         LET t == trades[i]
             H == hist[i]
         IN  /\ t.bid.orderId \in DOMAIN H
             /\ t.ask.orderId \in DOMAIN H
             /\ H[t.bid.orderId].side = "Buy"
             /\ H[t.ask.orderId].side = "Sell"
             /\ t.bid.price = H[t.bid.orderId].price
             /\ t.ask.price = H[t.ask.orderId].price
             /\ t.bid.quantity = t.ask.quantity
             /\ t.bid.quantity = MinQ(H[t.bid.orderId].remaining, H[t.ask.orderId].remaining)
             /\ t.bid.price >= t.ask.price

\* a trade between a buy order and a sell order of different limit prices
\* and different remaining quantities
C24_Witness ==
    /\ Idle
    /\ trades # <<>>
    /\ trades[1].bid.price > trades[1].ask.price
    /\ hist[1][trades[1].bid.orderId].remaining # hist[1][trades[1].ask.orderId].remaining

\* ---------------------------------------------------------------- C25
\* the queue q without id, the others in their order
Without(q, id) == SelectSeq(q, LAMBDA x : x # id)

\* side map `after` is side map `before` with id taken out of the queue at
\* price, and that price erased exactly when nothing else was queued there
LevelsWithout(before, after, price, id) ==
    /\ DOMAIN after = IF Without(before[price], id) = <<>> THEN DOMAIN before \ {price} ELSE DOMAIN before
    /\ \A p \in DOMAIN after : after[p] = IF p = price THEN Without(before[p], id) ELSE before[p]

Collected == {ordersPruneThread_.orderIds[i] : i \in 1..Len(ordersPruneThread_.orderIds)}

\* C26: prune pass completeness.  The ids a prune pass collects are those of
\* all the orders that are live with type GoodForDay at that moment, each
\* once; the pass cancels them when no other thread holds ordersMutex_; and
\* when the pass has finished none of the collected ids is live.
C26_PrunePassCompleteness ==
    [][/\ (PrunerAt("collect") /\ ~PrunerAt("collect")') =>
            /\ Collected' = GoodForDayIds(Book)
            /\ Len(ordersPruneThread_.orderIds') = Cardinality(GoodForDayIds(Book))
       /\ (PrunerAt("cancel") /\ ~PrunerAt("cancel")') =>
            /\ ordersMutex_ = "free"
            /\ Collected' = Collected
            /\ \A id \in Collected : id \notin DOMAIN orders_']_vars

\* a prune pass that collected two GoodForDay orders has finished and a
\* GoodTillCancel order is still live
C26_Witness ==
    /\ PrunerAt("compute")
    /\ Cardinality(Collected) = 2
    /\ Collected \cap DOMAIN orders_ = {}
    /\ \E i \in DOMAIN orders_ : orders_[i].type = "GoodTillCancel"

\* ---------------------------------------------------------------- C27
\* C27: no pruning after shutdown.  When the pruner's wait has ended and it
\* goes on to collect the GoodForDay ids, the shutdown flag is not set: once
\* the destructor has set the flag, the pruner starts no collect-and-cancel
\* pass.
C27_NoPruneAfterShutdown ==
    [][(~PrunerAt("collect") /\ PrunerAt("collect")') => ~shutdown_]_vars

\* ---------------------------------------------------------------- C28
\* C28: pruner lifetime.  The pruner thread has returned from
\* PruneGoodForDayOrders only if the shutdown flag has been set; a wake-up of
\* the timed wait that the destructor did not cause does not end it.
C28_PrunerLifetime ==
    PrunerAt("exited") => shutdown_

\* ---------------------------------------------------------------- C29
ShardSizes == [j \in 1..Len(shard.futures) |-> shard.futures[j].batchEnd - shard.futures[j].batchStart]

\* what the side holds, in its native price order
NativeLevelInfos ==
    LET levels == ShardLevels(shard.side, shard.container)
    IN  [j \in 1..Len(levels) |-> LevelInfo(levels[j], shard.container[levels[j]])]

\* C29: pool-partitioned sharding.  For a side of n >= 1 price levels and
\* h = max(1, hardware concurrency): the number of shards is k = min(h, n);
\* the shards are contiguous, the first starting at the first level and each
\* next one where the one before ends; the first k - 1 shards have
\* floor(n / k) levels each, and the last one ends at the end of the side, so
\* every level is in exactly one shard; each shard's result is its levels in
\* order; and the value returned is all n levels in the side's native price
\* order (descending for bids, ascending for asks).
C29_Sharding ==
    shard.pc # "none" =>
      LET n == Len(shard.container)
          h == IF shard.hardwareConcurrency >= 1 THEN shard.hardwareConcurrency ELSE 1
          k == IF h <= n THEN h ELSE n
          f == shard.futures
          submitted == shard.pc # "submit" \/ shard.i = shard.numBatches
      IN  /\ shard.numBatches = k
          /\ Len(f) <= k
          /\ submitted => Len(f) = k
          /\ \A j \in 1..Len(f) :
               /\ f[j].batchStart = IF j = 1 THEN 1 ELSE f[j - 1].batchEnd
               /\ j < k => ShardSizes[j] = n \div k
               /\ j = k => f[j].batchEnd = n + 1
               /\ f[j].localInfos = SubSeq(NativeLevelInfos, f[j].batchStart, f[j].batchEnd - 1)
          /\ submitted =>
               \A level \in 1..n :
                 Cardinality({j \in 1..k : f[j].batchStart <= level /\ level < f[j].batchEnd}) = 1
          /\ shard.pc = "done" =>
               /\ shard.combinedInfos = NativeLevelInfos
               /\ \A divZero \in DivZeroOutcomes :
                    SubmitBatches(ShardOrders(shard.side, shard.container), ShardSide(shard.container),
                                  ShardLevels(shard.side, shard.container), shard.hardwareConcurrency,
                                  divZero)
                      = [completed |-> TRUE, levelInfos |-> NativeLevelInfos]

\* a bid side of five levels was split into three shards of 1, 1 and 3
\* levels and returned
C29_Witness ==
    /\ shard.pc = "done"
    /\ shard.side = "Buy"
    /\ Len(shard.container) = 5
    /\ ShardSizes = <<1, 1, 3>>
    /\ Len(shard.combinedInfos) = 5

\* ---------------------------------------------------------------- C30
Queued == {tasks_[i] : i \in 1..Len(tasks_)}

\* the tasks that were submitted and have been taken off the queue
Dequeued == (1..Len(futures)) \ Queued

\* C30: worker-pool queue discipline, in every interleaving of submit calls
\* and workers.  The queue holds tasks in the order of their submission and
\* every task still queued was submitted after every task already dequeued,
\* so tasks are dequeued in submission order; a task a worker holds is no
\* longer queued, is held by no other worker and has not run before, so each
\* task is dequeued by at most one worker and executed at most once; and no
\* worker has called front() on an empty queue.
C30_QueueDiscipline ==
    /\ \A i, j \in 1..Len(tasks_) : i < j => tasks_[i] < tasks_[j]
    /\ \A q \in Queued, d \in Dequeued : d < q
    /\ \A w \in Workers :
         /\ workers_[w] # "undefined"
         /\ workers_[w] = "run" => task[w] \in Dequeued
         /\ task[w] # 0 =>
              /\ task[w] \notin Queued
              /\ futures[task[w]] = "pending"
              /\ \A v \in Workers \ {w} : task[v] # task[w]
    /\ \A k \in Queued : futures[k] = "pending"

\* two workers have dequeued one task each and the queue is empty
C30_Witness ==
    /\ tasks_ = <<>>
    /\ Len(futures) = 2
    /\ \E w, v \in Workers :
         /\ workers_[w] = "run" /\ task[w] = 1
         /\ workers_[v] = "run" /\ task[v] = 2

\* ---------------------------------------------------------------- C31
\* C31: the pruner cancels only GoodForDay orders.  Under every interleaving
\* of the pruner with the client's calls, every order that CancelOrders
\* removes in a prune pass has type GoodForDay at the moment it is removed.
C31_PrunerCancelsOnlyGoodForDay ==
    [][(PrunerAt("cancel") /\ ~PrunerAt("cancel")') =>
         \A id \in DOMAIN orders_ \ DOMAIN orders_' : orders_[id].type = "GoodForDay"]_vars

\* ---------------------------------------------------------------- C32
\* C32: level counters never wrap.  In every reachable state no entry of
\* data_ holds a count_ or a quantity_ that wrapped below zero: Remove is
\* applied only to a level whose stored count_ is at least 1, and Remove and
\* Match only to a level whose stored quantity_ is at least the quantity
\* subtracted.
C32_NoWrap ==
    \A p \in DOMAIN data_ :
      /\ data_[p].count_ >= 1
      /\ data_[p].quantity_ >= 0

\* ---------------------------------------------------------------- C33
RECURSIVE Bought(_)
Bought(ts) == IF ts = <<>> THEN 0 ELSE Head(ts).bid.quantity + Bought(Tail(ts))

RECURSIVE Sold(_)
Sold(ts) == IF ts = <<>> THEN 0 ELSE Head(ts).ask.quantity + Sold(Tail(ts))

\* the quantity trade t takes from order id
Taken(t, id) == IF t.bid.orderId = id \/ t.ask.orderId = id THEN t.bid.quantity ELSE 0

\* the order index after trade i of the last call: the one before the next
\* trade, or the present one after the last trade
IndexAfter(i) == IF i < Len(trades) THEN hist[i + 1] ELSE orders_

\* the order as the last call submitted it, when the call submitted one
Submitted(id) == last.op \in {"Add", "Modify"} /\ last.tag = "admitted" /\ last.id = id

\* every order of `orders` but those of ids is in `after`, unchanged
OthersUnchanged(orders, after, ids) ==
    \A i \in DOMAIN orders \ ids : i \in DOMAIN after /\ after[i] = orders[i]

\* C33: trade accounting, call by call.  For the trades of the last call:
\* the total bought equals the total sold; every trade takes its quantity
\* from the remaining quantity of its two orders and from no other order, an
\* order leaving the index exactly when nothing remains (or, after the last
\* trade, as the discarded rest of a FillAndKill order); before the first
\* trade every order has the remaining quantity it had before the call, the
\* submitted order its initial quantity.  So for every order, initial minus
\* remaining is the sum of the quantities of the trades it appears in: an
\* order live before and after the call lost what the call's trades took
\* from it, and a submitted order that is live has its initial quantity less
\* what they took.  Cancelling an order, or cancelling any list of orders as
\* a prune pass does, changes no other order.
C33_TradeAccounting ==
    Idle =>
      /\ Bought(trades) = Sold(trades)
      /\ \A i \in 1..Len(trades) :
           \A id \in DOMAIN hist[i] :
             LET left == hist[i][id].remaining - Taken(trades[i], id)
             IN  /\ left >= 0
                 /\ left = 0 => id \notin DOMAIN IndexAfter(i)
                 /\ left > 0 =>
                      \/ /\ id \in DOMAIN IndexAfter(i)
                         /\ IndexAfter(i)[id] = [hist[i][id] EXCEPT !.remaining = left]
                      \/ /\ i = Len(trades)
                         /\ hist[i][id].type = "FillAndKill"
                         /\ id \notin DOMAIN orders_
      /\ trades # <<>> =>
           \A id \in DOMAIN hist[1] :
             IF Submitted(id)
             THEN hist[1][id].remaining = last.qty /\ hist[1][id].initial = last.qty
             ELSE id \in DOMAIN prev.orders /\ hist[1][id] = prev.orders[id]
      /\ \A id \in DOMAIN orders_ :
           IF Submitted(id)
           THEN orders_[id].initial - orders_[id].remaining = TradedQuantity(trades, id)
           ELSE /\ id \in DOMAIN prev.orders
                /\ orders_[id].initial = prev.orders[id].initial
                /\ prev.orders[id].remaining - orders_[id].remaining = TradedQuantity(trades, id)
      /\ last.op = "Cancel" => OthersUnchanged(prev.orders, orders_, {last.id})
      /\ \A ids \in SUBSET DOMAIN orders_ :
           \A orderIds \in Orderings(ids) :
             OthersUnchanged(orders_, CancelOrdersLoop(Book, orderIds).orders, ids)

\* an incoming order traded with two resting orders, filled the first and
\* left the second partly filled
C33_Witness ==
    /\ Idle
    /\ Len(trades) = 2
    /\ last.op = "Add"
    /\ last.id \notin DOMAIN orders_
    /\ \E id \in DOMAIN orders_ :
         /\ TradedQuantity(trades, id) > 0
         /\ orders_[id].remaining > 0

====
